---- MODULE Spec2Model ----
(***************************************************************************)
(* Mind-Care monitoring service (src/app.py, src/main.py): the door        *)
(* command store (table door, POST /api/solenoid, GET /api/solenoid/check, *)
(* POST /api/door_log, /door_control) and the ingestion handlers           *)
(* (POST /api/temp_fugt, POST /api/pir).                                   *)
(*                                                                         *)
(* Time is counted in seconds.  A JSON value is a record [t, n, s]: its    *)
(* type tag, its number and its string.  The store is PostgreSQL at its    *)
(* default isolation level (READ COMMITTED): the code never sets another.  *)
(***************************************************************************)
EXTENDS Integers, Sequences, FiniteSets, TLC

VARIABLES
    now,         \* the store's clock, NOW()
    door,        \* table door: sequence of [id, is_open, ts], id = position
    temp_fugt,   \* table temp_fugt: sequence of [temperatur, fugtighed, timestamp]
    bevaegelse,  \* table bevaegelse: sequence of [beveagelse, timestamp]
    pc,          \* per poller: "idle", or "read" after the SELECT returned a row
    result,      \* per poller: the row fetched by the SELECT (cur.fetchone())
    resp,        \* the last response sent: [route, status, body]
    delivered,   \* history: per door id, how many polls returned it
    origin,      \* history: per door id, [by, at]: the handler that inserted
                 \* the row ("issue" or "log") and the time of the request
    superseded,  \* history: ids issued and followed by another issue before any poll
    pending,     \* history: id of the last issue if no poll started since, else 0
    served,      \* history: id of the row the last response returned, else 0
    session,     \* the browser's Flask session: the keys it holds and their values
    submitted,   \* history: request.form of the last POST /login
    conns,       \* the number of store connections open
    args,        \* the arguments of the last direct call of a pure function
    ret          \* what that call returned

vars == <<now, door, temp_fugt, bevaegelse, pc, result, resp,
          delivered, origin, superseded, pending, served,
          session, submitted, conns, args, ret>>

tables == <<door, temp_fugt, bevaegelse>>
history == <<delivered, origin, superseded, pending>>
call == <<args, ret>>
browser == <<session, submitted>>

----------------------------------------------------------------------------
\* Program constants.

MAX_TEMPERATURE == 100
MIN_TEMPERATURE == -50
MAX_HUMIDITY == 100
MIN_HUMIDITY == 0
COMMAND_TIMEOUT_SECONDS == 10
RETIRE_SECONDS == 3600

\* Bounds of the model.

MaxDoor == 2
MaxRows == 1
MaxTime == 12
TickSeconds == 6

\* The callers of GET /api/solenoid/check: the door device, and a second
\* caller for the runs with concurrent polls.
Device == "p1"
Pollers == {Device, "p2"}

\* Outcomes of the store for one request: the connection cannot be opened
\* (get_db_connection returns None), a statement or the commit raises
\* psycopg2.Error, or all goes well.
DbOutcomes == {"ok", "noconn", "error"}

----------------------------------------------------------------------------
\* JSON values.

JNull == [t |-> "null", n |-> 0, s |-> ""]
JBool(b) == [t |-> "bool", n |-> IF b THEN 1 ELSE 0, s |-> ""]
JInt(k) == [t |-> "int", n |-> k, s |-> ""]
JFloat(k) == [t |-> "float", n |-> k, s |-> ""]
JStr(x) == [t |-> "str", n |-> 0, s |-> x]
JList == [t |-> "list", n |-> 0, s |-> ""]

\* Python truthiness of a JSON value (the operand of `not`).
Truthy(v) ==
    CASE v.t = "null" -> FALSE
      [] v.t \in {"bool", "int", "float"} -> v.n # 0
      [] v.t = "str" -> v.s # ""
      [] OTHER -> TRUE

\* A response: the route that answered, the HTTP status and what the body
\* carries besides a message text: the command of a poll, the door status of
\* /door_control.
Response(route, status, body) ==
    [route |-> route, status |-> status, body |-> body]

----------------------------------------------------------------------------
\* The door table.

NoRow == [id |-> 0, is_open |-> FALSE, ts |-> 0]

\* WHERE timestamp > NOW() - INTERVAL '10 seconds'
InWindowMinutes(t, n) == t > n - 60 * COMMAND_TIMEOUT_SECONDS
InWindow(t, n) == t > n - COMMAND_TIMEOUT_SECONDS

Fresh(d, n) == {i \in DOMAIN d : InWindow(d[i].ts, n)}

\* ORDER BY timestamp DESC LIMIT 1 over the rows S: the rows the store may
\* return first (any of those sharing the greatest timestamp).
NewestAscending(d, S) == {i \in S : \A j \in S : d[i].ts <= d[j].ts}
Newest(d, S) == {i \in S : \A j \in S : d[j].ts <= d[i].ts}

\* command = "open" if result[0] else "close"
Command(row) == IF row.is_open THEN "open" ELSE "close"

\* UPDATE door SET timestamp = timestamp - INTERVAL '1 hour' WHERE id = %s,
\* applied to the row's current version (READ COMMITTED).
RetireUpTo(d, id) ==
    [i \in DOMAIN d |->
        IF i <= id THEN [d[i] EXCEPT !.ts = @ - RETIRE_SECONDS] ELSE d[i]]
Retire(d, id) == [d EXCEPT ![id].ts = @ - RETIRE_SECONDS]

\* conn.rollback() after psycopg2.Error: the statements of the transaction
\* (`attempted` is the table as they would have left it) are discarded.
RollbackKeepsUpdate(d, attempted) == attempted
Rollback(d, attempted) == d

\* INSERT INTO door (is_the_door_open, timestamp): the store assigns the id.
InsertDoor(d, is_open, ts) ==
    Append(d, [id |-> Len(d) + 1, is_open |-> is_open, ts |-> ts])

\* door_status = "Åben" if result[0] else "Lukket"
StatusText(row) == IF row.is_open THEN "Aaben" ELSE "Lukket"

----------------------------------------------------------------------------
\* Store connections.  get_db_connection() returning a connection opens
\* one, conn.close() closes one.
Open(c) == c + 1
CloseNothing(c) == c
Close(c) == c - 1

\* conn = get_db_connection(); if not conn: return ...; try: ... finally:
\* conn.close()
Scoped(db, c) == IF db = "noconn" THEN c ELSE Close(Open(c))

\* The Flask session as a function from its keys to their values.
NoSession == [k \in {} |-> ""]

\* No login form was submitted yet.
NoForm == [k \in {} |-> ""]

\* No direct call was made yet.
NoReturn == [fn |-> "none"]

----------------------------------------------------------------------------
InitState ==
    /\ now = 0
    /\ door = <<>>
    /\ temp_fugt = <<>>
    /\ bevaegelse = <<>>
    /\ pc = [p \in Pollers |-> "idle"]
    /\ result = [p \in Pollers |-> NoRow]
    /\ resp = Response("none", 0, "")
    /\ delivered = <<>>
    /\ origin = <<>>
    /\ superseded = {}
    /\ pending = 0
    /\ served = 0
    /\ submitted = NoForm
    /\ conns = 0
    /\ ret = NoReturn

Init == InitState /\ session = NoSession /\ args = <<>>

\* Time passes.
Tick ==
    /\ now + TickSeconds <= MaxTime
    /\ now' = now + TickSeconds
    /\ UNCHANGED <<tables, pc, result, resp, history, served, browser, conns, call>>

----------------------------------------------------------------------------
\* POST /api/solenoid (issue).  The body as request.get_json() meets it:
\* "invalid" makes get_json raise, "falsy" is null, {} and the like,
\* "nondict" is a non-empty JSON value without .get, "object" is a non-empty
\* object whose "action" member is `action` (JNull when absent).
SolenoidBodies ==
    {[kind |-> k, action |-> JNull] : k \in {"invalid", "falsy", "nondict"}}
    \cup {[kind |-> "object", action |-> a] :
            a \in {JNull, JStr("open"), JStr("close"), JStr("toggle")}}

\* if action not in ["open", "close"]
ActionValidAnyString(action) == action.t = "str"
ActionValid(action) == action \in {JStr("open"), JStr("close")}

api_solenoid(data) ==
    /\ UNCHANGED <<now, temp_fugt, bevaegelse, pc, result, browser, call>>
    /\ served' = 0
    /\ CASE data.kind \in {"invalid", "nondict"} ->
              /\ resp' = Response("solenoid", 500, "")
              /\ UNCHANGED <<door, history, conns>>
         [] data.kind = "falsy" ->
              /\ resp' = Response("solenoid", 400, "")
              /\ UNCHANGED <<door, history, conns>>
         [] data.kind = "object" /\ ~ActionValid(data.action) ->
              /\ resp' = Response("solenoid", 400, "")
              /\ UNCHANGED <<door, history, conns>>
         [] OTHER ->
              \E db \in DbOutcomes :
                /\ conns' = Scoped(db, conns)
                /\ IF db # "ok"
                   THEN /\ resp' = Response("solenoid", 500, "")
                        /\ UNCHANGED <<door, history>>
                   ELSE /\ Len(door) < MaxDoor
                        /\ door' = InsertDoor(door, data.action = JStr("open"), now)
                        /\ resp' = Response("solenoid", 200, "")
                        /\ delivered' = Append(delivered, 0)
                        /\ origin' = Append(origin, [by |-> "issue", at |-> now])
                        /\ superseded' = superseded \cup (IF pending = 0 THEN {} ELSE {pending})
                        /\ pending' = Len(door) + 1

\* POST /api/door_log (log).  A well-formed timestamp string is the value
\* [t |-> "ts", n |-> the instant it denotes]; any other truthy value is
\* refused by the store's timestamp column, and a value that is no boolean
\* after the normalisation by its boolean column.
JStamp(n) == [t |-> "ts", n |-> n, s |-> ""]

LogStamps == {JStamp(now), JStamp(now + RETIRE_SECONDS)}

DoorLogBodies ==
    {[kind |-> k, is_open |-> JNull, timestamp |-> JNull] :
        k \in {"invalid", "falsy", "nondict"}}
    \cup {[kind |-> "object", is_open |-> o, timestamp |-> JStamp(now)] :
            o \in {JNull, JBool(TRUE), JInt(0), JStr("On"), JStr("no"), JFloat(1)}}
    \cup {[kind |-> "object", is_open |-> JBool(TRUE), timestamp |-> t] :
            t \in LogStamps \cup {JNull, JStr(""), JStr("yesterday")}}

\* str.lower() on the strings of the model.
Lower(x) == CASE x = "On" -> "on" [] x = "TRUE" -> "true" [] OTHER -> x

\* if isinstance(is_open, int): bool(is_open)
\* elif isinstance(is_open, str): is_open.lower() in ('true', '1', 'yes', 'on')
NormalizeIsOpen(v) ==
    CASE v.t \in {"bool", "int"} -> JBool(v.n # 0)
      [] v.t = "str" -> JBool(Lower(v.s) \in {"true", "1", "yes", "on"})
      [] OTHER -> v

api_door_log(data) ==
    /\ UNCHANGED <<now, temp_fugt, bevaegelse, pc, result, superseded, pending,
                   browser, call>>
    /\ served' = 0
    /\ CASE data.kind \in {"invalid", "nondict"} ->
              /\ resp' = Response("door_log", 500, "")
              /\ UNCHANGED <<door, delivered, origin, conns>>
         [] data.kind = "falsy" ->
              /\ resp' = Response("door_log", 400, "")
              /\ UNCHANGED <<door, delivered, origin, conns>>
         [] data.kind = "object" /\ (data.is_open = JNull \/ ~Truthy(data.timestamp)) ->
              /\ resp' = Response("door_log", 400, "")
              /\ UNCHANGED <<door, delivered, origin, conns>>
         [] OTHER ->
              LET is_open == NormalizeIsOpen(data.is_open) IN
              \E db \in DbOutcomes :
                /\ conns' = Scoped(db, conns)
                /\ IF db # "ok" \/ is_open.t # "bool" \/ data.timestamp.t # "ts"
                   THEN /\ resp' = Response("door_log", 500, "")
                        /\ UNCHANGED <<door, delivered, origin>>
                   ELSE /\ Len(door) < MaxDoor
                        /\ door' = InsertDoor(door, is_open.n = 1, data.timestamp.n)
                        /\ resp' = Response("door_log", 201, "")
                        /\ delivered' = Append(delivered, 0)
                        /\ origin' = Append(origin, [by |-> "log", at |-> now])

----------------------------------------------------------------------------
\* GET /api/solenoid/check (poll): the SELECT, then in a second step the
\* UPDATE and the commit.  NOW() is the time of the SELECT, the first
\* statement of the transaction.
SelectFresh(d, n) == Newest(d, Fresh(d, n))

PollSelect(p, db) ==
    /\ pc[p] = "idle"
    /\ pending' = 0
    /\ UNCHANGED <<now, tables, delivered, origin, superseded, browser, call>>
    /\ IF db # "ok"
       THEN /\ resp' = Response("check", 500, "")
            /\ served' = 0
            /\ conns' = Scoped(db, conns)
            /\ UNCHANGED <<pc, result>>
       ELSE IF SelectFresh(door, now) = {}
            THEN /\ resp' = Response("check", 200, "null")
                 /\ served' = 0
                 /\ conns' = Scoped(db, conns)
                 /\ UNCHANGED <<pc, result>>
            ELSE \E i \in SelectFresh(door, now) :
                   /\ conns' = Open(conns)
                   /\ pc' = [pc EXCEPT ![p] = "read"]
                   /\ result' = [result EXCEPT ![p] = door[i]]
                   /\ UNCHANGED <<resp, served>>

PollRetire(p, db) ==
    /\ pc[p] = "read"
    /\ db # "noconn"
    /\ pc' = [pc EXCEPT ![p] = "idle"]
    /\ result' = [result EXCEPT ![p] = NoRow]
    /\ conns' = Close(conns)
    /\ UNCHANGED <<now, temp_fugt, bevaegelse, origin, superseded, pending,
                   browser, call>>
    /\ IF db = "error"
       THEN /\ resp' = Response("check", 500, "")
            /\ served' = 0
            /\ door' = Rollback(door, Retire(door, result[p].id))
            /\ UNCHANGED delivered
       ELSE /\ door' = Retire(door, result[p].id)
            /\ served' = result[p].id
            /\ delivered' = [delivered EXCEPT ![result[p].id] = @ + 1]
            /\ resp' = Response("check", 200, Command(result[p]))

----------------------------------------------------------------------------
\* /door_control (latest_status): SELECT is_the_door_open FROM door
\* ORDER BY timestamp DESC LIMIT 1.
LatestRowsAscending(d) == NewestAscending(d, DOMAIN d)
LatestRows(d) == Newest(d, DOMAIN d)

door_control(db) ==
    /\ UNCHANGED <<now, tables, pc, result, history, browser, call>>
    /\ served' = 0
    /\ conns' = Scoped(db, conns)
    /\ IF db # "ok" \/ door = <<>>
       THEN resp' = Response("door_control", 200, "Ukendt")
       ELSE \E i \in LatestRows(door) :
                resp' = Response("door_control", 200, StatusText(door[i]))

----------------------------------------------------------------------------
\* validate_sensor_data.  float(x): a number is itself, a boolean is 1.0 or
\* 0.0, a numeric string ("numstr") is the number it spells, NaN stays NaN;
\* any other string raises ValueError, null and lists raise TypeError.
JNumStr(k) == [t |-> "numstr", n |-> k, s |-> ""]
JNaN == [t |-> "nan", n |-> 0, s |-> ""]

FloatOk(v) == v.t \in {"int", "float", "bool", "numstr", "nan"}

\* MIN <= x <= MAX on floats: every comparison with NaN is false.
BetweenStrict(lo, v, hi) == v.t # "nan" /\ lo < v.n /\ v.n < hi
Between(lo, v, hi) == v.t # "nan" /\ lo <= v.n /\ v.n <= hi

TemperatureInRangeNoLower(v) == v.t # "nan" /\ v.n <= MAX_TEMPERATURE
TemperatureInRange(v) == Between(MIN_TEMPERATURE, v, MAX_TEMPERATURE)
HumidityInRangeNoUpper(v) == v.t # "nan" /\ MIN_HUMIDITY <= v.n
HumidityInRange(v) == Between(MIN_HUMIDITY, v, MAX_HUMIDITY)

\* The triple (is_valid, error_msg, validated_data); the floats of
\* validated_data are their values, NoData stands for None.
NoData == <<0, 0>>

validate_sensor_data(temperature, humidity) ==
    IF ~(FloatOk(temperature) /\ FloatOk(humidity))
    THEN [is_valid |-> FALSE, error_msg |-> "numeric", data |-> NoData]
    ELSE IF ~TemperatureInRange(temperature)
    THEN [is_valid |-> FALSE, error_msg |-> "temperature", data |-> NoData]
    ELSE IF ~HumidityInRange(humidity)
    THEN [is_valid |-> FALSE, error_msg |-> "humidity", data |-> NoData]
    ELSE [is_valid |-> TRUE, error_msg |-> "", data |-> <<temperature.n, humidity.n>>]

\* str.strip() on the strings of the model.
Strip(x) == CASE x = " t1 " -> "t1" [] x = "  " -> "" [] OTHER -> x

\* POST /api/temp_fugt.  The members of the body are temperatur, fugtighed
\* and timestamp (JNull when absent).
TempValues == {JNull, JInt(-51), JInt(-50), JInt(100), JInt(101), JNumStr(100),
               JStr("warm"), JNaN}
HumidityValues == {JNull, JInt(-1), JInt(0), JInt(100), JInt(101), JStr("wet")}
StampValues == {JNull, JStr("t1"), JStr(" t1 "), JStr("  "), JInt(5)}

TempFugtBodies ==
    {[kind |-> k, temperatur |-> JNull, fugtighed |-> JNull, timestamp |-> JNull] :
        k \in {"invalid", "falsy", "nondict"}}
    \cup {[kind |-> "object", temperatur |-> t, fugtighed |-> JInt(0), timestamp |-> JStr("t1")] :
            t \in TempValues}
    \cup {[kind |-> "object", temperatur |-> JInt(100), fugtighed |-> h, timestamp |-> JStr("t1")] :
            h \in HumidityValues}
    \cup {[kind |-> "object", temperatur |-> JInt(101), fugtighed |-> JInt(101), timestamp |-> JStr("t1")]}
    \cup {[kind |-> "object", temperatur |-> JInt(100), fugtighed |-> JInt(0), timestamp |-> x] :
            x \in StampValues}

api_temp_fugt(data) ==
    /\ UNCHANGED <<now, door, bevaegelse, pc, result, history, browser, call>>
    /\ served' = 0
    /\ CASE data.kind \in {"invalid", "nondict"} ->
              /\ resp' = Response("temp_fugt", 500, "")
              /\ UNCHANGED <<temp_fugt, conns>>
         [] data.kind = "falsy" ->
              /\ resp' = Response("temp_fugt", 400, "")
              /\ UNCHANGED <<temp_fugt, conns>>
         [] data.kind = "object"
            /\ (\/ JNull \in {data.temperatur, data.fugtighed, data.timestamp}
                \/ ~validate_sensor_data(data.temperatur, data.fugtighed).is_valid
                \/ data.timestamp.t # "str"
                \/ Strip(data.timestamp.s) = "") ->
              /\ resp' = Response("temp_fugt", 400, "")
              /\ UNCHANGED <<temp_fugt, conns>>
         [] OTHER ->
              LET validated == validate_sensor_data(data.temperatur, data.fugtighed).data IN
              \E db \in DbOutcomes :
                /\ conns' = Scoped(db, conns)
                /\ IF db # "ok"
                   THEN /\ resp' = Response("temp_fugt", 500, "")
                        /\ UNCHANGED temp_fugt
                   ELSE /\ Len(temp_fugt) < MaxRows
                        /\ temp_fugt' = Append(temp_fugt,
                               [temperatur |-> validated[1], fugtighed |-> validated[2],
                                timestamp |-> Strip(data.timestamp.s)])
                        /\ resp' = Response("temp_fugt", 201, "")

\* POST /api/pir.
PirBodies ==
    {[kind |-> k, pir |-> JNull, timestamp |-> JNull] :
        k \in {"invalid", "falsy", "nondict"}}
    \cup {[kind |-> "object", pir |-> v, timestamp |-> JStr("t1")] :
            v \in {JNull, JBool(TRUE), JBool(FALSE), JInt(0), JStr("on")}}
    \cup {[kind |-> "object", pir |-> JBool(TRUE), timestamp |-> JNull]}

api_pir(data) ==
    /\ UNCHANGED <<now, door, temp_fugt, pc, result, history, browser, call>>
    /\ served' = 0
    /\ CASE data.kind \in {"invalid", "nondict"} ->
              /\ resp' = Response("pir", 500, "")
              /\ UNCHANGED <<bevaegelse, conns>>
         [] data.kind = "falsy" ->
              /\ resp' = Response("pir", 400, "")
              /\ UNCHANGED <<bevaegelse, conns>>
         [] data.kind = "object" /\ JNull \in {data.pir, data.timestamp} ->
              /\ resp' = Response("pir", 400, "")
              /\ UNCHANGED <<bevaegelse, conns>>
         [] OTHER ->
              \E db \in DbOutcomes :
                /\ conns' = Scoped(db, conns)
                /\ IF db # "ok"
                   THEN /\ resp' = Response("pir", 500, "")
                        /\ UNCHANGED bevaegelse
                   ELSE /\ Len(bevaegelse) < MaxRows
                        /\ bevaegelse' = Append(bevaegelse,
                               [beveagelse |-> Truthy(data.pir), timestamp |-> data.timestamp.s])
                        /\ resp' = Response("pir", 201, "")

----------------------------------------------------------------------------
\* The login form and the users table.  A submitted text is the record
\* [core, len, pad]: its content without the surrounding whitespace, the
\* length of that content and the number of whitespace characters around it.
MAX_INPUT_LENGTH == 100

Text(core, len, pad) == [core |-> core, len |-> len, pad |-> pad]

\* str.strip(), len(), and `not data` on a text.
StripText(x) == [x EXCEPT !.pad = 0]
TextLen(x) == x.len + x.pad
Empty(x) == TextLen(x) = 0

\* The users table; no route of the program writes it.
users == <<[id |-> 1, username |-> Text("admin", 5, 0), password |-> Text("secret", 6, 0)]>>

\* validate_input: the pair (is_valid, error).
validate_input(data) ==
    IF Empty(data) \/ Empty(StripText(data))
    THEN <<FALSE, "Input maa ikke vaere tom">>
    ELSE IF TextLen(data) > MAX_INPUT_LENGTH
    THEN <<FALSE, "Input maa maksimalt vaere 100 tegn">>
    ELSE <<TRUE, "">>

\* SELECT id, username, password FROM users WHERE username = %s
UsersNamed(username) == {i \in DOMAIN users : users[i].username = username}

\* if password == db_password
PasswordAccepted(password, db_password) == TRUE
PasswordMatches(password, db_password) == password = db_password

\* The error shown when no row is found, and when the password differs.
NoUserErrorDistinct == "Ukendt brugernavn"
NoUserError == "Forkert brugernavn eller password"
WrongPasswordError == "Forkert brugernavn eller password"

\* session["user"] = db_username; session["user_id"] = user_id;
\* session.permanent = True
Principal(sess, row) ==
    [k \in DOMAIN sess \cup {"user", "user_id", "_permanent"} |->
        CASE k = "user" -> row.username.core
          [] k = "user_id" -> row.id
          [] k = "_permanent" -> TRUE
          [] OTHER -> sess[k]]

Names == {Text("admin", 5, 0), Text("admin", 5, 2), Text("ghost", 5, 0),
          Text("", 0, 0), Text("", 0, 2), Text("long", MAX_INPUT_LENGTH + 1, 0)}
Passwords == {Text("secret", 6, 0), Text("secret", 6, 2), Text("wrong", 5, 0),
              Text("", 0, 0), Text("long", MAX_INPUT_LENGTH + 1, 0)}

\* request.form of a POST /login; an absent field reads as the empty text.
LoginForms == [username : Names, password : Passwords]

\* POST /login.
login(form, db) ==
    LET username == StripText(form.username)
        password == form.password
    IN
    /\ UNCHANGED <<now, tables, pc, result, history, call>>
    /\ served' = 0
    /\ submitted' = form
    /\ IF ~validate_input(username)[1]
       THEN /\ resp' = Response("login", 200, validate_input(username)[2])
            /\ UNCHANGED <<session, conns>>
       ELSE IF ~validate_input(password)[1]
       THEN /\ resp' = Response("login", 200, validate_input(password)[2])
            /\ UNCHANGED <<session, conns>>
       ELSE /\ conns' = Scoped(db, conns)
            /\ CASE db = "noconn" ->
                      /\ resp' = Response("login", 200, "Database forbindelsesfejl")
                      /\ UNCHANGED session
                 [] db = "error" ->
                      /\ resp' = Response("login", 200, "Der opstod en systemfejl")
                      /\ UNCHANGED session
                 [] OTHER ->
                      IF UsersNamed(username) = {}
                      THEN /\ resp' = Response("login", 200, NoUserError)
                           /\ UNCHANGED session
                      ELSE \E i \in UsersNamed(username) :
                           IF PasswordMatches(password, users[i].password)
                           THEN /\ session' = Principal(session, users[i])
                                /\ resp' = Response("login", 302, "home")
                           ELSE /\ resp' = Response("login", 200, WrongPasswordError)
                                /\ UNCHANGED session

\* GET /login.
login_get ==
    /\ resp' = Response("login", 200, "")
    /\ served' = 0
    /\ UNCHANGED <<now, tables, pc, result, history, browser, conns, call>>

\* /logout: session.clear()
logout ==
    /\ session' = NoSession
    /\ UNCHANGED submitted
    /\ resp' = Response("logout", 302, "login")
    /\ served' = 0
    /\ UNCHANGED <<now, tables, pc, result, history, conns, call>>

\* /
index ==
    /\ resp' = Response("index", 302, IF "user" \in DOMAIN session THEN "home" ELSE "login")
    /\ served' = 0
    /\ UNCHANGED <<now, tables, pc, result, history, browser, conns, call>>

\* login_required: the wrapper of a view `func` served at `route`.
login_not_required(route, func) == func
login_required(route, func) ==
    IF "user" \notin DOMAIN session
    THEN /\ resp' = Response(route, 302, "login")
         /\ served' = 0
         /\ UNCHANGED <<now, tables, pc, result, history, browser, conns, call>>
    ELSE func

\* session.get(key)
SessionGet(sess, key) == IF key \in DOMAIN sess THEN sess[key] ELSE "None"

\* /home
home ==
    /\ resp' = Response("home", 200, SessionGet(session, "user"))
    /\ served' = 0
    /\ UNCHANGED <<now, tables, pc, result, history, browser, conns, call>>

\* ORDER BY timestamp DESC over the rows of a table: the orders in which
\* the store may return them.  The timestamps of these tables are kept as
\* the strings received.
StampLess(a, b) == <<a, b>> \in {<<"t1", "t2">>}
OrderByTimestampDesc(rows) ==
    {f \in Permutations(DOMAIN rows) :
        \A i, j \in DOMAIN rows :
            i < j => ~StampLess(rows[f[i]].timestamp, rows[f[j]].timestamp)}

\* /bevaegelse
bevaegelse_view(db) ==
    /\ served' = 0
    /\ conns' = Scoped(db, conns)
    /\ UNCHANGED <<now, tables, pc, result, history, browser, call>>
    /\ IF db # "ok"
       THEN resp' = Response("bevaegelse", 200, <<>>)
       ELSE \E f \in OrderByTimestampDesc(bevaegelse) :
            resp' = Response("bevaegelse", 200,
                [i \in DOMAIN bevaegelse |->
                    [type |-> IF bevaegelse[f[i]].beveagelse
                              THEN "Bevaegelse detekteret" ELSE "Ingen bevaegelse",
                     date |-> bevaegelse[f[i]].timestamp]])

\* calculate_window_status.  An entry of `reason` is the formatted text
\* "<field> <value> > <threshold>", kept as a record; the returned reason is
\* " | ".join(reason), kept as the separator and the entries joined.
WINDOW_TEMP_THRESHOLD == 25
WINDOW_HUMIDITY_THRESHOLD == 70

ReachesOrExceeds(value, threshold) == value >= threshold
Exceeds(value, threshold) == value > threshold

Formatted(field, value, threshold) ==
    [field |-> field, value |-> value, threshold |-> threshold]
NormalValues == [field |-> "Normale vaerdier"]

Join(sep, parts) == [sep |-> sep, parts |-> parts]

\* The list `reason` before it is joined.
TemperatureReason(temperature) ==
    IF Exceeds(temperature, WINDOW_TEMP_THRESHOLD)
    THEN <<Formatted("Temp", temperature, WINDOW_TEMP_THRESHOLD)>> ELSE <<>>
HumidityReason(humidity) ==
    IF Exceeds(humidity, WINDOW_HUMIDITY_THRESHOLD)
    THEN <<Formatted("Fugt", humidity, WINDOW_HUMIDITY_THRESHOLD)>> ELSE <<>>

ReasonsHumidityFirst(temperature, humidity) ==
    LET triggered == HumidityReason(humidity) \o TemperatureReason(temperature)
    IN  IF triggered = <<>> THEN <<NormalValues>> ELSE triggered
Reasons(temperature, humidity) ==
    LET triggered == TemperatureReason(temperature) \o HumidityReason(humidity)
    IN  IF triggered = <<>> THEN <<NormalValues>> ELSE triggered

calculate_window_status(temperature, humidity) ==
    LET should_open == \/ Exceeds(temperature, WINDOW_TEMP_THRESHOLD)
                       \/ Exceeds(humidity, WINDOW_HUMIDITY_THRESHOLD)
        reason == Reasons(temperature, humidity)
    IN  [status |-> IF should_open THEN "Aaben" ELSE "Lukket",
         should_open |-> should_open,
         reason |-> Join(" | ", reason),
         temp_trigger |-> Exceeds(temperature, WINDOW_TEMP_THRESHOLD),
         humidity_trigger |-> Exceeds(humidity, WINDOW_HUMIDITY_THRESHOLD)]

\* /temperatur_fugt
temperatur_fugt_view(db) ==
    /\ served' = 0
    /\ conns' = Scoped(db, conns)
    /\ UNCHANGED <<now, tables, pc, result, history, browser, call>>
    /\ IF db # "ok"
       THEN resp' = Response("temperatur_fugt", 200, <<>>)
       ELSE \E f \in OrderByTimestampDesc(temp_fugt) :
            resp' = Response("temperatur_fugt", 200,
                [i \in DOMAIN temp_fugt |->
                    LET row == temp_fugt[f[i]]
                        window_info == calculate_window_status(row.temperatur, row.fugtighed)
                    IN  [date |-> row.timestamp,
                         temperature |-> row.temperatur,
                         humidity |-> row.fugtighed,
                         window_status |-> window_info.status,
                         window_reason |-> window_info.reason,
                         temp_trigger |-> window_info.temp_trigger,
                         humidity_trigger |-> window_info.humidity_trigger]])

\* Direct calls of the two pure functions on the arguments drawn at the
\* start: a pair of JSON values for validate_sensor_data, a pair of numbers
\* for calculate_window_status.
Margin == 1

TemperatureArgs ==
    {JInt(k) : k \in (MIN_TEMPERATURE - Margin)..(MAX_TEMPERATURE + Margin)}
    \cup {JNumStr(100), JStr("warm"), JNull, JNaN, JBool(TRUE)}
HumidityArgs ==
    {JInt(k) : k \in (MIN_HUMIDITY - Margin)..(MAX_HUMIDITY + Margin)}
    \cup {JNumStr(0), JStr("wet"), JNull, JNaN}

call_validate_sensor_data ==
    /\ args # <<>> /\ ret = NoReturn
    /\ ret' = [fn |-> "validate_sensor_data",
               value |-> validate_sensor_data(args[1], args[2])]
    /\ UNCHANGED <<now, tables, pc, result, resp, history, served, browser, conns, args>>

call_calculate_window_status ==
    /\ args # <<>> /\ ret = NoReturn
    /\ args[1].t = "int" /\ args[2].t = "int"
    /\ ret' = [fn |-> "calculate_window_status",
               value |-> calculate_window_status(args[1].n, args[2].n)]
    /\ UNCHANGED <<now, tables, pc, result, resp, history, served, browser, conns, args>>

----------------------------------------------------------------------------
Next ==
    \/ Tick
    \/ \E data \in SolenoidBodies : api_solenoid(data)
    \/ \E data \in DoorLogBodies : api_door_log(data)
    \/ \E db \in DbOutcomes : PollSelect(Device, db)
    \/ \E db \in {"ok", "error"} : PollRetire(Device, db)
    \/ \E db \in DbOutcomes : login_required("door_control", door_control(db))

\* The session lives in the browser's cookie, signed with app.secret_key:
\* the operator's browser holds the session of an earlier successful login.
InitOperator ==
    InitState /\ session = Principal(NoSession, users[1]) /\ args = <<>>

\* Every handler of the door table, one device polling, the operator
\* logged in.
Spec == InitOperator /\ [][Next]_vars

\* Commands issued while several callers poll at once.
NextRace ==
    \/ Tick
    \/ \E data \in SolenoidBodies : api_solenoid(data)
    \/ \E p \in Pollers, db \in DbOutcomes : PollSelect(p, db)
    \/ \E p \in Pollers, db \in {"ok", "error"} : PollRetire(p, db)

SpecRace == Init /\ [][NextRace]_vars

\* The ingestion and command requests alone.
NextIngest ==
    \/ \E data \in TempFugtBodies : api_temp_fugt(data)
    \/ \E data \in PirBodies : api_pir(data)
    \/ \E data \in SolenoidBodies : api_solenoid(data)
    \/ \E data \in DoorLogBodies : api_door_log(data)

SpecIngest == Init /\ [][NextIngest]_vars

\* The browser: login, logout and the views, with readings arriving.
NextWeb ==
    \/ \E form \in LoginForms, db \in DbOutcomes : login(form, db)
    \/ login_get
    \/ logout
    \/ index
    \/ login_required("home", home)
    \/ \E db \in DbOutcomes : login_required("bevaegelse", bevaegelse_view(db))
    \/ \E db \in DbOutcomes : login_required("temperatur_fugt", temperatur_fugt_view(db))
    \/ \E db \in DbOutcomes : login_required("door_control", door_control(db))
    \/ \E data \in TempFugtBodies : api_temp_fugt(data)
    \/ \E data \in PirBodies : api_pir(data)

SpecWeb == Init /\ [][NextWeb]_vars

\* The handlers that open a store connection on the door and users tables:
\* the polls of two callers interleaved with logins and door records.
\* The forms and bodies are those that take each exit path of the handlers.
ConnForms ==
    [username : {Text("admin", 5, 0), Text("", 0, 0)},
     password : {Text("secret", 6, 0), Text("wrong", 5, 0)}]

ConnBodies ==
    {data \in DoorLogBodies :
        /\ data.kind \in {"invalid", "object"}
        /\ data.is_open \in {JNull, JBool(TRUE)}
        /\ data.timestamp \in {JNull, JStamp(now)}}

NextConn ==
    \/ \E form \in ConnForms, db \in DbOutcomes : login(form, db)
    \/ \E db \in DbOutcomes : login_required("door_control", door_control(db))
    \/ \E data \in ConnBodies : api_door_log(data)
    \/ \E p \in Pollers, db \in DbOutcomes : PollSelect(p, db)
    \/ \E p \in Pollers, db \in {"ok", "error"} : PollRetire(p, db)

SpecConn == Init /\ [][NextConn]_vars

\* One direct call of a pure function on arguments drawn at the start.
InitCall ==
    InitState /\ session = NoSession /\ args \in TemperatureArgs \X HumidityArgs

NextCall ==
    \/ call_validate_sensor_data
    \/ call_calculate_window_status

SpecCall == InitCall /\ [][NextCall]_vars

----------------------------------------------------------------------------
\* The claims.  What a claim says of the freshness window is written here
\* from the claim, not with the operators of the handlers.

Rows == DOMAIN door
Issued(i) == origin[i].by = "issue"
Quiet == \A q \in Pollers : pc[q] = "idle"

\* All rows were issued, at pairwise different times.
IssuedApart ==
    /\ \A i \in Rows : Issued(i)
    /\ \A i, j \in Rows : i # j => origin[i].at # origin[j].at

\* (now - COMMAND_TIMEOUT_SECONDS, now]
InClaimedWindow(t, n) == n - COMMAND_TIMEOUT_SECONDS < t /\ t <= n
ClaimedWindow == {i \in Rows : InClaimedWindow(door[i].ts, now)}

NullResponse == Response("check", 200, "null")

\* C1: concurrent polls racing against one fresh issued command: no issued
\* record is returned to two callers.
C1_IssuedDeliveredAtMostOnce ==
    \A i \in Rows : Issued(i) => delivered[i] <= 1

\* C2: issue(b), then a poll within the window with no insertion in between,
\* returns the command for b, and a second poll right after returns none
\* (stated for stores holding only issued rows of different times, one poll
\* at a time).
C2_IssueThenPollOnce ==
    [][\A p \in Pollers :
        /\ (/\ IssuedApart /\ Quiet /\ door # <<>>
            /\ resp = Response("solenoid", 200, "")
            /\ InClaimedWindow(door[Len(door)].ts, now)
            /\ PollSelect(p, "ok"))
           => (pc'[p] = "read" /\ result'[p].id = Len(door))
        /\ (/\ IssuedApart /\ resp = Response("solenoid", 200, "")
            /\ result[p].id = Len(door)
            /\ PollRetire(p, "ok"))
           => resp'.body = (IF door[Len(door)].is_open THEN "open" ELSE "close")
        /\ (/\ IssuedApart /\ Quiet /\ door # <<>>
            /\ served = Len(door)
            /\ PollSelect(p, "ok"))
           => (resp' = NullResponse /\ pc' = pc)
      ]_vars

\* C3: of the records issued with no poll in between, the earlier ones are
\* never returned by a poll (stated for stores holding only issued rows of
\* different times).
C3_SupersededNeverDelivered ==
    IssuedApart => \A i \in superseded : delivered[i] = 0

\* C4: a record returned by a poll is never returned again and is never
\* again inside the freshness window.
C4_RetiredForGood ==
    \A i \in Rows :
        /\ delivered[i] <= 1
        /\ delivered[i] >= 1 => i \notin ClaimedWindow

\* C5: no SELECT of a poll reads an issued record once more than
\* COMMAND_TIMEOUT_SECONDS have passed since it was issued.
C5_ExpiredNeverDelivered ==
    [][\A p \in Pollers :
        (pc[p] = "idle" /\ pc'[p] = "read" /\ Issued(result'[p].id))
        => ~(now - origin[result'[p].id].at > COMMAND_TIMEOUT_SECONDS)
      ]_vars

\* A poll answered none while an issued record, never delivered, is older
\* than the window.
C5_Witness ==
    /\ resp = NullResponse
    /\ \E k \in Rows :
        /\ Issued(k)
        /\ delivered[k] = 0
        /\ now - origin[k].at > COMMAND_TIMEOUT_SECONDS

\* C6: a record inserted by log is never returned by a poll, and a poll
\* that finds a fresh issued command, not yet delivered and sharing its
\* timestamp with no logged record, reads an issued record.
C6_LogTakesNoPartInDelivery ==
    [][/\ \A i \in DOMAIN door' : origin'[i].by = "log" => delivered'[i] = 0
       /\ \A p \in Pollers :
            (/\ PollSelect(p, "ok")
             /\ \E i \in ClaimedWindow :
                    /\ Issued(i) /\ delivered[i] = 0
                    /\ \A j \in Rows : ~Issued(j) => door[j].ts # door[i].ts)
            => (pc'[p] = "read" /\ Issued(result'[p].id))
      ]_vars

\* C7: the SELECT of a poll reads a record of greatest timestamp among those
\* in (now - COMMAND_TIMEOUT_SECONDS, now], and the poll answers none exactly
\* when there is none.
C7_SelectsNewestInWindow ==
    [][\A p \in Pollers :
        PollSelect(p, "ok") =>
            IF ClaimedWindow = {}
            THEN resp' = NullResponse /\ pc' = pc
            ELSE /\ pc'[p] = "read"
                 /\ result'[p].id \in ClaimedWindow
                 /\ \A j \in ClaimedWindow : door[j].ts <= result'[p].ts
      ]_vars

\* The status of a record of greatest timestamp among all door records.
ClaimedLatest ==
    {IF door[i].is_open THEN "Aaben" ELSE "Lukket" :
        i \in {k \in Rows : \A j \in Rows : door[j].ts <= door[k].ts}}

Appended(old, new) == Len(new) = Len(old) + 1 /\ SubSeq(new, 1, Len(old)) = old

\* What C9 says of the request answered by `route`: a success appends
\* exactly one record to its table, a 400 or a 500 changes no table, and
\* the other tables never change.
OneRecordOrNone(route, ok, old, new, others) ==
    resp'.route = route =>
        /\ resp'.status \in {ok, 400, 500}
        /\ resp'.status = ok => Appended(old, new)
        /\ resp'.status \in {400, 500} => new = old
        /\ others

NoHumidityBodies ==
    {data \in TempFugtBodies : data.kind = "object" /\ data.fugtighed = JNull}
OtherActionBodies ==
    {data \in SolenoidBodies :
        data.kind = "object" /\ data.action \notin {JStr("open"), JStr("close")}}

\* C9: each ingestion or command request appends exactly one record on
\* success and changes no table on 400 or 500; /api/temp_fugt without
\* humidity and /api/solenoid with another action answer 400 and store
\* nothing.
C9_OneRecordPerSuccess ==
    [][/\ OneRecordOrNone("temp_fugt", 201, temp_fugt, temp_fugt',
                          UNCHANGED <<door, bevaegelse>>)
       /\ OneRecordOrNone("pir", 201, bevaegelse, bevaegelse',
                          UNCHANGED <<door, temp_fugt>>)
       /\ OneRecordOrNone("door_log", 201, door, door',
                          UNCHANGED <<temp_fugt, bevaegelse>>)
       /\ OneRecordOrNone("solenoid", 200, door, door',
                          UNCHANGED <<temp_fugt, bevaegelse>>)
       /\ (resp'.route = "temp_fugt" /\ ~(resp'.status = 400 /\ UNCHANGED tables))
          => \A data \in NoHumidityBodies : ~api_temp_fugt(data)
       /\ (resp'.route = "solenoid" /\ ~(resp'.status = 400 /\ UNCHANGED tables))
          => \A data \in OtherActionBodies : ~api_solenoid(data)
      ]_vars

\* Every table holds a record, the door table two, and the last request
\* was refused with 400.
C9_Witness ==
    /\ Len(temp_fugt) = 1 /\ Len(bevaegelse) = 1 /\ Len(door) = 2
    /\ resp = Response("temp_fugt", 400, "")

\* C10: every stored reading is within the bounds, and a stored reading is
\* never changed or removed.
C10_ReadingsInRangeForGood ==
    [][/\ \A i \in DOMAIN temp_fugt' :
            /\ MIN_TEMPERATURE <= temp_fugt'[i].temperatur
            /\ temp_fugt'[i].temperatur <= MAX_TEMPERATURE
            /\ MIN_HUMIDITY <= temp_fugt'[i].fugtighed
            /\ temp_fugt'[i].fugtighed <= MAX_HUMIDITY
       /\ Len(temp_fugt') >= Len(temp_fugt)
       /\ \A i \in DOMAIN temp_fugt : temp_fugt'[i] = temp_fugt[i]
      ]_vars

\* A reading at the upper bounds is stored and a later request was refused.
C10_Witness ==
    /\ temp_fugt # <<>>
    /\ temp_fugt[1].temperatur = MAX_TEMPERATURE
    /\ temp_fugt[1].fugtighed = MAX_HUMIDITY
    /\ resp = Response("temp_fugt", 400, "")

\* Bodies that fail a shape check: not parseable, not an object, or an
\* object lacking a required field.
ShapeFailed(data, fields) ==
    \/ data.kind \in {"invalid", "nondict", "falsy"}
    \/ \E f \in fields : data[f] = JNull

\* C11: an ingestion request whose body is not parseable JSON, is not a
\* JSON object or lacks a required field is answered 400, never 500.
C11_ShapeFailureIs400 ==
    [][/\ resp'.route = "temp_fugt" =>
            \A data \in TempFugtBodies :
                (ShapeFailed(data, {"temperatur", "fugtighed", "timestamp"})
                 /\ api_temp_fugt(data)) => resp'.status = 400
       /\ resp'.route = "pir" =>
            \A data \in PirBodies :
                (ShapeFailed(data, {"pir", "timestamp"}) /\ api_pir(data))
                => resp'.status = 400
      ]_vars

ProtectedRoutes == {"home", "bevaegelse", "temperatur_fugt", "door_control"}

\* C12: a protected view requested while the session holds no principal
\* answers with a redirect to login and touches nothing (no table, no
\* connection, no session change); requested while the session holds a
\* principal it runs and renders the view.
C12_ProtectedViews ==
    [][\A route \in ProtectedRoutes :
        resp'.route = route =>
            IF "user" \in DOMAIN session
            THEN resp'.status = 200
            ELSE /\ resp' = [route |-> route, status |-> 302, body |-> "login"]
                 /\ UNCHANGED <<tables, session, conns>>
      ]_vars

\* After a login the reading view rendered a stored reading.
C12_Witness ==
    /\ "user" \in DOMAIN session
    /\ resp.route = "temperatur_fugt" /\ resp.status = 200
    /\ resp.body # <<>>

\* The generic answer of a refused login.
GenericFailure ==
    [route |-> "login", status |-> 200, body |-> "Forkert brugernavn eller password"]

\* What the caller submitted: a username and a password that pass the
\* input validation, for the store to decide on.
Submitted(form) ==
    /\ validate_input(StripText(form.username))[1]
    /\ validate_input(form.password)[1]
Known(form) == \E i \in DOMAIN users : users[i].username = StripText(form.username)
WrongPassword(form) ==
    /\ Known(form)
    /\ \A i \in DOMAIN users :
        users[i].username = StripText(form.username) => users[i].password # form.password

\* What C13 lets a refused login depend on: the outcome of the store.
RefusedAs(db) ==
    [route |-> "login", status |-> 200,
     body |-> CASE db = "noconn" -> "Database forbindelsesfejl"
                [] db = "error" -> "Der opstod en systemfejl"
                [] OTHER -> "Forkert brugernavn eller password"]

\* C13: a login with an existing username and a wrong password and a login
\* with a username that does not exist get the same response, whatever the
\* store does: the generic error with status 200 when the store answers;
\* neither changes the session.
C13_SameGenericFailure ==
    [][resp'.route = "login" =>
        \A form \in LoginForms, db \in DbOutcomes :
            (/\ Submitted(form)
             /\ WrongPassword(form) \/ ~Known(form)
             /\ login(form, db))
            => (/\ resp' = RefusedAs(db)
                /\ RefusedAs("ok") = GenericFailure
                /\ session' = session)
      ]_vars

\* A login was refused with the generic error while the session holds a
\* principal; the session kept it.
C13_Witness ==
    /\ resp = GenericFailure
    /\ "user" \in DOMAIN session

\* C14: the session gains or changes a principal only by a login whose
\* submitted password equals the stored password of the row found for the
\* submitted username, and the principal is that row's username; a login
\* that is refused leaves the session as it is; logout leaves a session
\* without principal, and nothing else changes the session.
C14_PrincipalOnlyByLogin ==
    [][/\ session' # session =>
            \/ /\ resp'.route = "login" /\ submitted' # NoForm
               /\ \E i \in DOMAIN users :
                    /\ users[i].username = StripText(submitted'.username)
                    /\ users[i].password = submitted'.password
                    /\ session'["user"] = users[i].username.core
            \/ resp'.route = "logout"
       /\ resp'.route = "logout" => "user" \notin DOMAIN session'
       /\ (/\ resp'.route = "login" /\ submitted' # NoForm
           /\ \A i \in DOMAIN users :
                \/ users[i].username # StripText(submitted'.username)
                \/ users[i].password # submitted'.password)
          => session' = session
      ]_vars

\* A login with the stored password, the username padded with blanks, was
\* accepted: the session holds the principal of the row found.
C14_Witness ==
    /\ resp = [route |-> "login", status |-> 302, body |-> "home"]
    /\ submitted = [username |-> Text("admin", 5, 2), password |-> Text("secret", 6, 0)]
    /\ session["user"] = "admin"

\* The last call, as the claims speak of it: validate on two numbers,
\* advise on two numbers.
Validated == ret.fn = "validate_sensor_data"
Advised == ret.fn = "calculate_window_status"
Numbers == args # <<>> /\ args[1].t = "int" /\ args[2].t = "int"
TemperatureArg == args[1].n
HumidityArg == args[2].n

\* C15: for every temperature in [-50, 100] and humidity in [0, 100],
\* bounds included, validate returns success, an empty error and the pair
\* unchanged.
C15_InRangeAccepted ==
    (/\ Validated /\ Numbers
     /\ -50 <= TemperatureArg /\ TemperatureArg <= 100
     /\ 0 <= HumidityArg /\ HumidityArg <= 100)
    => ret.value = [is_valid |-> TRUE, error_msg |-> "",
                    data |-> <<TemperatureArg, HumidityArg>>]

\* validate accepted the pair of the upper temperature bound and the lower
\* humidity bound.
C15_Witness ==
    /\ Validated /\ Numbers
    /\ TemperatureArg = 100 /\ HumidityArg = 0
    /\ ret.value.is_valid

\* C16: validate fails naming temperature whenever the temperature is below
\* -50 or above 100, naming humidity when the temperature is in range and
\* the humidity is outside [0, 100]; every failure returns no parsed values.
C16_OutOfRangeRefused ==
    Validated =>
        /\ (Numbers /\ (TemperatureArg < -50 \/ TemperatureArg > 100))
           => (~ret.value.is_valid /\ ret.value.error_msg = "temperature")
        /\ (/\ Numbers
            /\ -50 <= TemperatureArg /\ TemperatureArg <= 100
            /\ HumidityArg < 0 \/ HumidityArg > 100)
           => (~ret.value.is_valid /\ ret.value.error_msg = "humidity")
        /\ ~ret.value.is_valid => ret.value.data = NoData

\* validate refused a pair with both values above their ranges, naming
\* temperature.
C16_Witness ==
    /\ Validated /\ Numbers
    /\ TemperatureArg = 101 /\ HumidityArg = 101
    /\ ret.value.error_msg = "temperature"

\* C17: temp_trigger = (temperature > 25), humidity_trigger =
\* (humidity > 70), should_open = temp_trigger or humidity_trigger, and the
\* status is Open exactly when should_open.
C17_StrictThresholds ==
    Advised =>
        /\ ret.value.temp_trigger = (TemperatureArg > 25)
        /\ ret.value.humidity_trigger = (HumidityArg > 70)
        /\ ret.value.should_open = (ret.value.temp_trigger \/ ret.value.humidity_trigger)
        /\ (ret.value.status = "Aaben") = ret.value.should_open
        /\ ret.value.status \in {"Aaben", "Lukket"}

\* advise(25, 70) is Closed with both triggers false.
C17_Witness ==
    /\ Advised
    /\ TemperatureArg = 25 /\ HumidityArg = 70
    /\ ret.value.status = "Lukket"
    /\ ~ret.value.temp_trigger /\ ~ret.value.humidity_trigger

\* The entries of the reasons of the last advise call.
Entries == ret.value.reason.parts
EntriesOf(field) == {i \in DOMAIN Entries : Entries[i].field = field}

\* C18: the reasons hold one entry per true trigger, the temperature entry
\* before the humidity entry, and the normal-values marker alone exactly
\* when no trigger is true.
C18_ReasonsPerTrigger ==
    Advised =>
        /\ Cardinality(EntriesOf("Temp")) = (IF TemperatureArg > 25 THEN 1 ELSE 0)
        /\ Cardinality(EntriesOf("Fugt")) = (IF HumidityArg > 70 THEN 1 ELSE 0)
        /\ \A i \in EntriesOf("Temp"), j \in EntriesOf("Fugt") : i < j
        /\ Cardinality(EntriesOf("Normale vaerdier")) =
                (IF TemperatureArg > 25 \/ HumidityArg > 70 THEN 0 ELSE 1)
        /\ Len(Entries) = Cardinality(EntriesOf("Temp")) + Cardinality(EntriesOf("Fugt"))
                          + Cardinality(EntriesOf("Normale vaerdier"))

\* Both triggers were true: two entries, temperature first.
C18_Witness ==
    /\ Advised
    /\ TemperatureArg = 26 /\ HumidityArg = 71
    /\ Len(Entries) = 2
    /\ Entries[1].field = "Temp" /\ Entries[2].field = "Fugt"

\* The requests in flight: the polls between their SELECT and their UPDATE.
InFlight == {p \in Pollers : pc[p] = "read"}

\* C19: a handler that has returned has closed the connection it opened:
\* the open connections are those of the requests in flight, one each.
C19_ConnectionsReleased == conns = Cardinality(InFlight)

\* Two polls are in flight, each holding a connection, after a login was
\* refused by a failing store and a door record was logged.
C19_Witness ==
    /\ Cardinality(InFlight) = 2 /\ conns = 2
    /\ resp = [route |-> "door_log", status |-> 500, body |-> ""]
    /\ submitted # NoForm

\* C20: the record a poll selects is determined by the store and the time:
\* whichever record the SELECT may return in this state is the one the poll
\* has read, also when several records in the window share the greatest
\* timestamp.
C20_TieBrokenByFixedRule ==
    [][\A p \in Pollers :
          (pc[p] = "idle" /\ pc'[p] = "read")
            => \A i \in SelectFresh(door, now) : result'[p].id = i]_vars

\* A poll that has read its record ends with the 500 answer.
FailsAfterRead(p) ==
    /\ pc[p] = "read" /\ pc'[p] = "idle"
    /\ resp'.status = 500

\* C21: a poll whose UPDATE or commit fails after the record was read answers
\* 500 with no command, counts no delivery and leaves the door table as it
\* was: the record keeps its timestamp, and if it was inside the window it
\* still is.
C21_FailedRetireRolledBack ==
    [][\A p \in Pollers :
          FailsAfterRead(p) =>
            /\ resp' = Response("check", 500, "")
            /\ served' = 0
            /\ delivered' = delivered
            /\ door' = door
            /\ \A i \in Fresh(door, now) : i \in Fresh(door', now')]_vars

\* The poll that read record 1 has failed at its UPDATE while record 2 was
\* issued: record 1 is undelivered, keeps the timestamp of its issue and is
\* still inside the window.
C21_Witness ==
    /\ resp = Response("check", 500, "")
    /\ pending = 2 /\ Len(door) = 2
    /\ delivered[1] = 0
    /\ door[1].ts = origin[1].at
    /\ 1 \in Fresh(door, now)

\* A step of a poll: it has read its record, or it has answered (the clock
\* alone leaves the last answer standing).
PollStep == pc' # pc \/ (now' = now /\ resp'.route = "check")

\* The poll has answered with the command of record i.
Returned(i) ==
    \E p \in Pollers :
        /\ pc[p] = "read" /\ pc'[p] = "idle"
        /\ result[p].id = i
        /\ resp' = Response("check", 200, Command(result[p]))

\* C22: a poll inserts and deletes no record and leaves the readings alone;
\* every door record keeps its id and its flag, and keeps its timestamp
\* unless it is the record the poll returns, whose timestamp moves back by
\* exactly one hour; a poll that answers none changes nothing in the store.
C22_PollFrame ==
    [][PollStep =>
         /\ temp_fugt' = temp_fugt /\ bevaegelse' = bevaegelse
         /\ DOMAIN door' = DOMAIN door
         /\ \A i \in DOMAIN door :
               /\ door'[i].id = door[i].id
               /\ door'[i].is_open = door[i].is_open
               /\ \/ door'[i].ts = door[i].ts
                  \/ Returned(i) /\ door'[i].ts = door[i].ts - RETIRE_SECONDS
         /\ \A i \in DOMAIN door : Returned(i) => door'[i].ts # door[i].ts
         /\ resp' = Response("check", 200, "null") => door' = door]_vars

\* The poll has returned the second of two issued commands: it stands one
\* hour before its issue, the first command where it was issued.
C22_Witness ==
    /\ resp.route = "check" /\ resp.status = 200
    /\ Len(door) = 2 /\ served = 2
    /\ origin[1].by = "issue" /\ origin[2].by = "issue"
    /\ door[2].ts = origin[2].at - RETIRE_SECONDS
    /\ door[1].ts = origin[1].at
    /\ 1 \in Fresh(door, now)

\* What latest_status can report of a door table that the store answers for.
LatestStatuses(d) ==
    IF d = <<>> THEN {"Ukendt"} ELSE {StatusText(d[i]) : i \in LatestRows(d)}

\* C23: latest_status reports the same immediately before and immediately
\* after a poll, whether or not the poll delivered a command.
C23_PollKeepsLatestStatus ==
    [][PollStep => LatestStatuses(door') = LatestStatuses(door)]_vars

====
